---- MODULE Spec2Model ----
(***************************************************************************)
(* Model of student_code.py: SortableDigraph, TraversableDigraph and DAG.  *)
(*                                                                         *)
(* A Python dict is modelled as a sequence of entries [k |-> key,          *)
(* v |-> value] with pairwise distinct keys, in insertion order (the order *)
(* in which Python iterates the dict).  self.graph is a dict from node to  *)
(* a dict from child to edge weight.                                       *)
(*                                                                         *)
(* Python values used as node names are named by TLA+ strings: the values  *)
(* in StrIds are Python str objects, the values in NonStrIds are Python    *)
(* objects of another (hashable) type.  The weight "None" is Python None.  *)
(***************************************************************************)
EXTENDS Integers, Sequences, FiniteSets, TLC

\* Bound on the number of add_node / add_edge calls made on one instance.
MaxCalls == 3

\* Bound on the length of the call script that builds the graph a
\* traversal runs on.
MaxScript == 3

StrIds == {"a", "b", "c"}
NonStrIds == {"int:5"}
Ids == StrIds \cup NonStrIds
Weights == {"None", "w1"}

\* every Python str value that names a node somewhere in the model; "" is
\* the empty string
StrValues == StrIds \cup {"d", ""}

\* isinstance(node_name, str)
IsStr(x) == x \in StrValues

(***************************************************************************)
(* dict primitives                                                         *)
(***************************************************************************)
\* list(d.keys()): the keys in insertion order
Keys(d) == [i \in 1..Len(d) |-> d[i].k]

\* set(d.keys())
KeySet(d) == {d[i].k : i \in 1..Len(d)}

\* k in d
HasKey(d, k) == \E i \in 1..Len(d) : d[i].k = k

\* d[k] for a key that is present
Get(d, k) == d[CHOOSE i \in 1..Len(d) : d[i].k = k].v

\* d[k] = v that always adds a new entry, also for an existing key
Put_append(d, k, v) == Append(d, [k |-> k, v |-> v])

\* d[k] = v: an existing key keeps its position, a new key goes last
Put(d, k, v) ==
    IF HasKey(d, k)
    THEN [i \in 1..Len(d) |-> IF d[i].k = k THEN [k |-> k, v |-> v] ELSE d[i]]
    ELSE Append(d, [k |-> k, v |-> v])

\* self.graph.get(node, {}).keys(), in insertion order
ChildrenOrEmpty(g, n) == IF HasKey(g, n) THEN Keys(Get(g, n)) ELSE <<>>

\* get_children(node_name)
get_children(g, n) == ChildrenOrEmpty(g, n)

\* get_nodes()
get_nodes(g) == Keys(g)

(***************************************************************************)
(* SortableDigraph                                                         *)
(***************************************************************************)
\* add_node without the membership test: an existing node is reset to {}
add_node_reset(g, n) ==
    IF ~IsStr(n)
    THEN [g |-> g, err |-> "TypeError"]
    ELSE [g |-> Put(g, n, <<>>), err |-> "none"]

\* add_node(node_name): the graph after the call and the exception raised
add_node(g, n) ==
    IF ~IsStr(n)
    THEN [g |-> g, err |-> "TypeError"]
    ELSE [g |-> IF HasKey(g, n) THEN g ELSE Append(g, [k |-> n, v |-> <<>>]),
          err |-> "none"]

\* add_edge that forgets self.add_node(target)
Sortable_add_edge_notarget(g, s, t, w) ==
    LET r1 == add_node(g, s) IN
    IF r1.err # "none" THEN r1
    ELSE [g |-> Put(r1.g, s, Put(Get(r1.g, s), t, w)), err |-> "none"]

\* SortableDigraph.add_edge(source, target, edge_weight)
Sortable_add_edge(g, s, t, w) ==
    LET r1 == add_node(g, s) IN
    IF r1.err # "none" THEN r1
    ELSE LET r2 == add_node(r1.g, t) IN
         IF r2.err # "none" THEN r2
         ELSE [g |-> Put(r2.g, s, Put(Get(r2.g, s), t, w)), err |-> "none"]

(***************************************************************************)
(* DAG                                                                     *)
(***************************************************************************)
\* the while loop of path_exists
RECURSIVE PathLoop(_, _, _, _)
PathLoop(g, stack, visited, target) ==
    IF stack = <<>> THEN FALSE
    ELSE LET node == stack[Len(stack)]
             rest == SubSeq(stack, 1, Len(stack) - 1)
         IN  IF node = target THEN TRUE
             ELSE IF node \notin visited
                  THEN PathLoop(g, rest \o ChildrenOrEmpty(g, node),
                                visited \cup {node}, target)
                  ELSE PathLoop(g, rest, visited, target)

\* path_exists that looks for a path of one or more edges only
path_exists_strict(g, start, target) ==
    IF ~HasKey(g, start) THEN FALSE
    ELSE PathLoop(g, ChildrenOrEmpty(g, start), {start}, target)

\* path_exists without the test for an absent start node
path_exists_nocheck(g, start, target) == PathLoop(g, <<start>>, {}, target)

\* path_exists(start_node, target_node)
path_exists(g, start, target) ==
    IF ~HasKey(g, start) THEN FALSE
    ELSE PathLoop(g, <<start>>, {}, target)

\* DAG.add_edge with the arguments of the reachability check swapped
DAG_add_edge_swapped(g, s, t, w) ==
    IF path_exists(g, s, t)
    THEN [g |-> g, err |-> "ValueError"]
    ELSE Sortable_add_edge(g, s, t, w)

\* DAG.add_edge that refuses an edge when a path exists in either direction
DAG_add_edge_both(g, s, t, w) ==
    IF path_exists(g, t, s) \/ path_exists(g, s, t)
    THEN [g |-> g, err |-> "ValueError"]
    ELSE Sortable_add_edge(g, s, t, w)

\* DAG.add_edge(source, target, edge_weight)
DAG_add_edge(g, s, t, w) ==
    IF path_exists(g, t, s)
    THEN [g |-> g, err |-> "ValueError"]
    ELSE Sortable_add_edge(g, s, t, w)

\* add_edge as dispatched on the class of the instance
add_edge(cls, g, s, t, w) ==
    IF cls = "DAG" THEN DAG_add_edge(g, s, t, w)
    ELSE Sortable_add_edge(g, s, t, w)

(***************************************************************************)
(* top_sort                                                                *)
(***************************************************************************)
\* in_degree that does not count an edge from a node to itself
InDegree_noself(g) ==
    [v \in KeySet(g) |->
        Cardinality({i \in 1..Len(g) : HasKey(g[i].v, v) /\ g[i].k # v})]

\* in_degree after lines 44-47: the number of nodes that list v as a child
InDegree(g) ==
    [v \in KeySet(g) |->
        Cardinality({i \in 1..Len(g) : HasKey(g[i].v, v)})]

\* the for loop with the threshold off by one: a child is enqueued when
\* its in-degree drops to 1
RECURSIVE Relax_offbyone(_, _, _, _)
Relax_offbyone(cs, j, deg, queue) ==
    IF j > Len(cs) THEN [deg |-> deg, queue |-> queue]
    ELSE LET d == deg[cs[j]] - 1
             deg2 == [deg EXCEPT ![cs[j]] = d]
         IN  Relax_offbyone(cs, j + 1, deg2,
                            IF d = 1 THEN Append(queue, cs[j]) ELSE queue)

\* the for loop over the children of the popped node (lines 55-58), from
\* child number j on: the in-degree table and the work list it leaves
RECURSIVE Relax(_, _, _, _)
Relax(cs, j, deg, queue) ==
    IF j > Len(cs) THEN [deg |-> deg, queue |-> queue]
    ELSE LET d == deg[cs[j]] - 1
             deg2 == [deg EXCEPT ![cs[j]] = d]
         IN  Relax(cs, j + 1, deg2,
                   IF d = 0 THEN Append(queue, cs[j]) ELSE queue)

\* the while loop of top_sort (lines 52-58)
RECURSIVE TopLoop(_, _, _, _)
TopLoop(g, deg, queue, sorted) ==
    IF queue = <<>> THEN sorted
    ELSE LET node == queue[Len(queue)]
             rest == SubSeq(queue, 1, Len(queue) - 1)
             r == Relax(Keys(Get(g, node)), 1, deg, rest)
         IN  TopLoop(g, r.deg, r.queue, Append(sorted, node))

\* queue = [u for u in self.graph if in_degree[u] == 0]
TopSeed(g, deg) == SelectSeq(Keys(g), LAMBDA u : deg[u] = 0)

\* top_sort()
top_sort(g) == TopLoop(g, InDegree(g), TopSeed(g, InDegree(g)), <<>>)

(***************************************************************************)
(* Mathematical vocabulary used by the properties (not code).              *)
(***************************************************************************)
SeqToSet(s) == {s[i] : i \in 1..Len(s)}

NoDup(s) == \A i, j \in 1..Len(s) : s[i] = s[j] => i = j

\* the stored edge relation
EdgeSet(g) == UNION {{<<g[i].k, c>> : c \in KeySet(g[i].v)} : i \in 1..Len(g)}

\* the nodes one stored edge away from a node of S
Post(g, S) == {e[2] : e \in {x \in EdgeSet(g) : x[1] \in S}}

RECURSIVE Closure(_, _)
Closure(g, S) == IF Post(g, S) \subseteq S THEN S ELSE Closure(g, S \cup Post(g, S))

\* the nodes reachable from n by zero or more stored edges
ReachStar(g, n) == Closure(g, {n})

\* the nodes reachable from n by one or more stored edges
ReachPlus(g, n) == Closure(g, Post(g, {n}))

\* n lies on a directed cycle (a self-loop is a cycle)
OnCycle(g, n) == n \in ReachPlus(g, n)

Acyclic(g) == \A n \in KeySet(g) : ~OnCycle(g, n)

NumEdges(g) == Cardinality(EdgeSet(g))

\* the weight stored for the edge s -> t
Weight(g, s, t) == Get(Get(g, s), t)

\* number of occurrences of x in the sequence s
Count(s, x) == Cardinality({i \in 1..Len(s) : s[i] = x})

\* position of x in the sequence s (0 when absent)
IndexOf(s, x) == IF x \in SeqToSet(s) THEN CHOOSE i \in 1..Len(s) : s[i] = x ELSE 0

(***************************************************************************)
(* TraversableDigraph: the generators dfs and bfs, one loop iteration at a *)
(* time.  A generator is suspended at its yield (pc = "yield") until the   *)
(* caller pulls again.                                                     *)
(***************************************************************************)
\* stack after node = stack[-1]: the top is read but not removed
StackRest_peek(stack) == stack

\* stack after node = stack.pop()
StackRest(stack) == SubSeq(stack, 1, Len(stack) - 1)

\* stack after stack.extend(self.graph.keys()): every node is pushed
DfsPush_all(g, stack, node) == stack \o Keys(g)

\* stack after stack.extend(reversed(self.graph[node].keys())): the
\* children are pushed last-listed first, which gives pre-order
DfsPush_reversed(g, stack, node) ==
    LET cs == Keys(Get(g, node)) IN
    stack \o [i \in 1..Len(cs) |-> cs[Len(cs) + 1 - i]]

\* stack after stack.extend(self.graph[node].keys()), node present
DfsPush(g, stack, node) == stack \o Keys(Get(g, node))

\* queue after node = queue.popleft()
QueueRest(queue) == Tail(queue)

\* queue after the for loop calling queue.appendleft(neighbor)
BfsPush_left(g, queue, node) ==
    LET cs == Keys(Get(g, node)) IN
    [i \in 1..Len(cs) |-> cs[Len(cs) + 1 - i]] \o queue

\* queue after the for loop appending every neighbor, node present
BfsPush(g, queue, node) == queue \o Keys(Get(g, node))

(***************************************************************************)
(* State                                                                   *)
(***************************************************************************)
VARIABLES
    cls,     \* class of the instance: "Digraph" (Sortable/Traversable) or "DAG"
    graph,   \* self.graph
    last,    \* the last completed call: its arguments, exception and result
    it,      \* the generator of the traversal in progress
    ncalls   \* number of add_node / add_edge calls made so far

vars == <<cls, graph, last, it, ncalls>>

NoCall == [op |-> "init", a1 |-> "-", a2 |-> "-", w |-> "-", err |-> "none",
           sorted |-> <<>>, found |-> FALSE]

NoIter == [mode |-> "idle", start |-> "-", work |-> <<>>, visited |-> {},
           pc |-> "idle", node |-> "-", out |-> <<>>]

\* __init__
Init ==
    /\ cls \in {"Digraph", "DAG"}
    /\ graph = <<>>
    /\ last = NoCall
    /\ it = NoIter
    /\ ncalls = 0

(***************************************************************************)
(* Calls on the graph                                                      *)
(***************************************************************************)
AddNode(n) ==
    LET r == add_node(graph, n) IN
    /\ ncalls < MaxCalls
    /\ ncalls' = ncalls + 1
    /\ graph' = r.g
    /\ last' = [NoCall EXCEPT !.op = "add_node", !.a1 = n, !.err = r.err]
    /\ UNCHANGED <<cls, it>>

AddEdge(s, t, w) ==
    LET r == add_edge(cls, graph, s, t, w) IN
    /\ ncalls < MaxCalls
    /\ ncalls' = ncalls + 1
    /\ graph' = r.g
    /\ last' = [NoCall EXCEPT !.op = "add_edge", !.a1 = s, !.a2 = t, !.w = w,
                              !.err = r.err]
    /\ UNCHANGED <<cls, it>>

Next ==
    \/ \E n \in Ids : AddNode(n)
    \/ \E s, t \in Ids, w \in Weights : AddEdge(s, t, w)

Spec == Init /\ [][Next]_vars

(***************************************************************************)
(* The same calls with the empty string among the node names.              *)
(***************************************************************************)
EmptyIds == {"", "a", "int:5"}

NextEmpty ==
    \/ \E n \in EmptyIds : AddNode(n)
    \/ \E s, t \in EmptyIds, w \in Weights : AddEdge(s, t, w)

SpecEmpty == Init /\ [][NextEmpty]_vars

(***************************************************************************)
(* Queries and traversals.  The graph they run on is built by a script of  *)
(* at most MaxScript add_node / add_edge calls on a fresh instance, and is *)
(* not mutated while a generator is being consumed.                        *)
(***************************************************************************)
ScriptCalls ==
    {[op |-> "add_node", a1 |-> n, a2 |-> "-"] : n \in StrIds}
    \cup {[op |-> "add_edge", a1 |-> e[1], a2 |-> e[2]] : e \in StrIds \X StrIds}

Scripts == UNION {[1..n -> ScriptCalls] : n \in 0..MaxScript}

RECURSIVE Build(_, _, _, _)
Build(c, script, i, g) ==
    IF i > Len(script) THEN g
    ELSE Build(c, script, i + 1,
               IF script[i].op = "add_node"
               THEN add_node(g, script[i].a1).g
               ELSE add_edge(c, g, script[i].a1, script[i].a2, "None").g)

InitTrav ==
    /\ cls \in {"Digraph", "DAG"}
    /\ \E sc \in Scripts : graph = Build(cls, sc, 1, <<>>)
    /\ last = NoCall
    /\ it = NoIter
    /\ ncalls = 0

(***************************************************************************)
(* Queries                                                                 *)
(***************************************************************************)
TopSort ==
    /\ last' = [NoCall EXCEPT !.op = "top_sort", !.sorted = top_sort(graph)]
    /\ UNCHANGED <<cls, graph, it, ncalls>>

PathExists(s, t) ==
    /\ cls = "DAG"
    /\ last' = [NoCall EXCEPT !.op = "path_exists", !.a1 = s, !.a2 = t,
                              !.found = path_exists(graph, s, t)]
    /\ UNCHANGED <<cls, graph, it, ncalls>>

NextQuery ==
    \/ TopSort
    \/ \E s, t \in Ids : PathExists(s, t)

SpecQuery == InitTrav /\ [][NextQuery]_vars

(***************************************************************************)
(* Generators                                                              *)
(***************************************************************************)
\* g.dfs(start_node) up to the first test of the while loop
StartDfs(s) ==
    /\ it.pc = "idle"
    /\ it' = [NoIter EXCEPT !.mode = "dfs", !.start = s, !.work = <<s>>,
                            !.pc = "loop"]
    /\ UNCHANGED <<cls, graph, last, ncalls>>

\* g.bfs(start_node) up to the first test of the while loop
StartBfs(s) ==
    /\ it.pc = "idle"
    /\ it' = [NoIter EXCEPT !.mode = "bfs", !.start = s, !.work = <<s>>,
                            !.pc = "loop"]
    /\ UNCHANGED <<cls, graph, last, ncalls>>

\* one iteration of dfs's while loop, up to the yield
DfsPop ==
    /\ it.mode = "dfs" /\ it.pc = "loop"
    /\ IF it.work = <<>>
       THEN it' = [it EXCEPT !.pc = "done"]
       ELSE LET node == it.work[Len(it.work)] IN
            IF node \in it.visited
            THEN it' = [it EXCEPT !.work = StackRest(it.work), !.node = node]
            ELSE it' = [it EXCEPT !.work = StackRest(it.work), !.node = node,
                                  !.visited = it.visited \cup {node},
                                  !.out = Append(it.out, node),
                                  !.pc = "yield"]
    /\ UNCHANGED <<cls, graph, last, ncalls>>

\* the next pull resumes dfs after the yield: stack.extend(self.graph[node])
DfsResume ==
    /\ it.mode = "dfs" /\ it.pc = "yield"
    /\ IF HasKey(graph, it.node)
       THEN it' = [it EXCEPT !.work = DfsPush(graph, it.work, it.node),
                             !.pc = "loop"]
       ELSE it' = [it EXCEPT !.pc = "KeyError"]
    /\ UNCHANGED <<cls, graph, last, ncalls>>

\* one iteration of bfs's while loop, up to the yield
BfsPop ==
    /\ it.mode = "bfs" /\ it.pc = "loop"
    /\ IF it.work = <<>>
       THEN it' = [it EXCEPT !.pc = "done"]
       ELSE LET node == Head(it.work) IN
            IF node \in it.visited
            THEN it' = [it EXCEPT !.work = QueueRest(it.work), !.node = node]
            ELSE it' = [it EXCEPT !.work = QueueRest(it.work), !.node = node,
                                  !.visited = it.visited \cup {node},
                                  !.out = Append(it.out, node),
                                  !.pc = "yield"]
    /\ UNCHANGED <<cls, graph, last, ncalls>>

\* the next pull resumes bfs after the yield: the for loop over self.graph[node]
BfsResume ==
    /\ it.mode = "bfs" /\ it.pc = "yield"
    /\ IF HasKey(graph, it.node)
       THEN it' = [it EXCEPT !.work = BfsPush(graph, it.work, it.node),
                             !.pc = "loop"]
       ELSE it' = [it EXCEPT !.pc = "KeyError"]
    /\ UNCHANGED <<cls, graph, last, ncalls>>

Pull == DfsPop \/ DfsResume \/ BfsPop \/ BfsResume

NextTrav ==
    \/ \E s \in Ids : StartDfs(s)
    \/ \E s \in Ids : StartBfs(s)
    \/ DfsPop
    \/ DfsResume
    \/ BfsPop
    \/ BfsResume

SpecTrav == InitTrav /\ [][NextTrav]_vars

(***************************************************************************)
(* bfs on graphs of up to four nodes, built by a script of add_edge calls. *)
(***************************************************************************)
LevelIds == {"a", "b", "c", "d"}

LevelCalls ==
    {[op |-> "add_edge", a1 |-> e[1], a2 |-> e[2]] : e \in LevelIds \X LevelIds}

LevelScripts == UNION {[1..n -> LevelCalls] : n \in 0..MaxScript}

InitLevel ==
    /\ cls \in {"Digraph", "DAG"}
    /\ \E sc \in LevelScripts : graph = Build(cls, sc, 1, <<>>)
    /\ last = NoCall
    /\ it = NoIter
    /\ ncalls = 0

NextLevel ==
    \/ \E s \in LevelIds : StartBfs(s)
    \/ BfsPop
    \/ BfsResume

SpecLevel == InitLevel /\ [][NextLevel]_vars

\* the caller keeps pulling the generator
SpecTravFair == InitTrav /\ [][NextTrav]_vars /\ WF_vars(Pull)

(***************************************************************************)
(* Properties                                                              *)
(***************************************************************************)

\* C1: on a DAG instance, after any sequence of add_node and add_edge calls,
\* the stored edge relation is acyclic: no node reaches itself by one or more
\* stored edges, self-loops included.
C1_DagAcyclic == cls = "DAG" => Acyclic(graph)

\* C2: on a DAG instance, when a directed path from target to source already
\* exists in the graph, add_edge(source, target, w) raises the cycle error
\* (ValueError) and the whole adjacency mapping is what it was before the
\* call; in particular get_children(source) is unchanged.
C2_CycleRejectedUnchanged ==
    [][(/\ cls = "DAG"
        /\ last'.op = "add_edge"
        /\ HasKey(graph, last'.a2)
        /\ last'.a1 \in ReachStar(graph, last'.a2))
       => (/\ last'.err = "ValueError"
           /\ graph' = graph
           /\ get_children(graph', last'.a1) = get_children(graph, last'.a1))]_vars

\* C2 witness: an edge closing a path of two or more edges has been rejected.
C2_Witness ==
    /\ cls = "DAG"
    /\ last.op = "add_edge" /\ last.err = "ValueError"
    /\ last.a1 # last.a2
    /\ <<last.a2, last.a1>> \notin EdgeSet(graph)
    /\ last.a1 \in ReachPlus(graph, last.a2)

\* C3: on a DAG instance add_edge(n, n) is rejected with the cycle error
\* (ValueError) for every node identifier n, present in the graph or not,
\* and no edge n -> n is ever stored.
C3_SelfLoopRejected ==
    cls = "DAG" =>
        /\ \A n \in Ids : <<n, n>> \notin EdgeSet(graph)
        /\ (last.op = "add_edge" /\ last.a1 = last.a2 /\ IsStr(last.a1))
               => last.err = "ValueError"

\* C4 (as stated): after any successful add_edge call on a DAG instance,
\* path_exists(n, n) returns false for every node n of the graph.
C4_NoSelfReach ==
    (cls = "DAG" /\ last.op = "add_edge" /\ last.err = "none")
        => \A n \in KeySet(graph) : ~path_exists(graph, n, n)

\* C4 (amended): after any successful add_edge call on a DAG instance,
\* path_exists(n, n) returns true for every node n of the graph, because the
\* search pops its start node first and a node reaches itself by the empty
\* path.
C4_SelfReachTrivial ==
    (cls = "DAG" /\ last.op = "add_edge" /\ last.err = "none")
        => \A n \in KeySet(graph) : path_exists(graph, n, n)

\* C4 witness: a successful add_edge on a DAG instance that holds an
\* acyclic graph of three nodes.
C4_Witness ==
    /\ cls = "DAG" /\ last.op = "add_edge" /\ last.err = "none"
    /\ Len(graph) = 3 /\ Acyclic(graph) /\ NumEdges(graph) >= 2

\* C5: for every graph without cycles, top_sort() returns a sequence that
\* contains every node exactly once and in which u comes strictly before v
\* for every stored edge (u, v).
C5_TopSortValid ==
    (last.op = "top_sort" /\ Acyclic(graph)) =>
        /\ NoDup(last.sorted)
        /\ SeqToSet(last.sorted) = KeySet(graph)
        /\ \A e \in EdgeSet(graph) :
               IndexOf(last.sorted, e[1]) < IndexOf(last.sorted, e[2])

\* C5 witness: top_sort has run on an acyclic graph of three nodes in which
\* one node has two parents.
C5_Witness ==
    /\ last.op = "top_sort" /\ Acyclic(graph) /\ Len(graph) = 3
    /\ \E v \in KeySet(graph) : InDegree(graph)[v] = 2

\* C6: on an unguarded graph that contains a directed cycle, top_sort()
\* returns a sequence strictly shorter than get_nodes(), and no node lying
\* on a cycle appears in it.
C6_TopSortCyclic ==
    (last.op = "top_sort" /\ cls = "Digraph" /\ ~Acyclic(graph)) =>
        /\ Len(last.sorted) < Len(get_nodes(graph))
        /\ \A n \in KeySet(graph) :
               OnCycle(graph, n) => n \notin SeqToSet(last.sorted)

\* C6 witness: top_sort has run on an unguarded graph with a cycle and has
\* returned the node that lies outside the cycle.
C6_Witness ==
    /\ last.op = "top_sort" /\ cls = "Digraph" /\ ~Acyclic(graph)
    /\ Len(last.sorted) >= 1

\* C7: for a start node present in the graph, the sequence yielded by
\* dfs(start) or bfs(start) never repeats a node and never holds a node
\* unreachable from start, and once the generator is exhausted it holds
\* every node reachable from start.
C7_TraversalExact ==
    (it.mode # "idle" /\ HasKey(graph, it.start)) =>
        /\ NoDup(it.out)
        /\ SeqToSet(it.out) \subseteq ReachStar(graph, it.start)
        /\ it.pc # "KeyError"
        /\ it.pc = "done" => SeqToSet(it.out) = ReachStar(graph, it.start)

\* C7 witness: a traversal has been exhausted after yielding two or more
\* nodes on a graph that also has a node unreachable from start.
C7_Witness ==
    /\ it.pc = "done" /\ HasKey(graph, it.start)
    /\ Len(it.out) >= 2
    /\ KeySet(graph) \ SeqToSet(it.out) # {}

\* C8: on every finite graph, cycles and self-loops included, a dfs or bfs
\* traversal from a present start node that keeps being pulled eventually
\* exhausts with an empty stack / queue.
C8_TraversalTerminates ==
    (it.pc = "loop" /\ HasKey(graph, it.start))
        ~> (it.pc = "done" /\ it.work = <<>>)

\* C8 witness: a traversal started on a cycle has been exhausted.
C8_Witness ==
    /\ it.pc = "done" /\ it.work = <<>>
    /\ HasKey(graph, it.start) /\ OnCycle(graph, it.start)
    /\ Len(it.out) >= 2

\* C9: a dfs or bfs traversal started from a node absent from the graph
\* fails before any node is yielded: it never yields the absent node and
\* never completes successfully.
C9_AbsentStartYieldsNothing ==
    (it.mode # "idle" /\ ~HasKey(graph, it.start)) =>
        (it.out = <<>> /\ it.pc # "done")

\* C10: an add_node or add_edge call that raises the invalid-node-kind error
\* (TypeError) leaves the adjacency mapping exactly as it was before.
C10_TypeErrorNoMutation ==
    [][last'.err = "TypeError" => graph' = graph]_vars


\* C11: every node identifier stored in the graph is a non-empty string:
\* add_node and add_edge fail on the empty string and on a non-string, so
\* no reachable graph has an empty or non-string key.
C11_KeysNonEmptyStrings ==
    \A k \in KeySet(graph) : IsStr(k) /\ k # ""


\* C12: in every reachable graph state, after calls that succeed or raise,
\* every edge endpoint is a key of the adjacency mapping: no child listed
\* under a node is missing from get_nodes().
C12_NoDanglingEdges ==
    /\ \A e \in EdgeSet(graph) : e[1] \in KeySet(graph) /\ e[2] \in KeySet(graph)
    /\ \A n \in SeqToSet(get_nodes(graph)) :
           SeqToSet(get_children(graph, n)) \subseteq SeqToSet(get_nodes(graph))

\* C12 witness: a call has raised on a graph of three nodes that holds edges.
C12_Witness ==
    /\ last.err # "none" /\ Len(graph) = 3 /\ NumEdges(graph) >= 2

\* C13: a successful add_edge(source, target, w2) on a pair that already
\* has an edge replaces its weight by w2, leaves target listed exactly once
\* under source, and changes no other node, edge or weight.
C13_OverwriteWeight ==
    [][(/\ last'.op = "add_edge" /\ last'.err = "none"
        /\ <<last'.a1, last'.a2>> \in EdgeSet(graph))
       => (/\ get_nodes(graph') = get_nodes(graph)
           /\ \A n \in KeySet(graph) :
                  get_children(graph', n) = get_children(graph, n)
           /\ Count(get_children(graph', last'.a1), last'.a2) = 1
           /\ Weight(graph', last'.a1, last'.a2) = last'.w
           /\ \A e \in EdgeSet(graph) \ {<<last'.a1, last'.a2>>} :
                  Weight(graph', e[1], e[2]) = Weight(graph, e[1], e[2]))]_vars

\* C13 witness: the last call set the weight w1 on an edge that is not the
\* last one listed under its source, so the edge was there before the call.
C13_Witness ==
    /\ last.op = "add_edge" /\ last.err = "none" /\ last.w = "w1"
    /\ IndexOf(get_children(graph, last.a1), last.a2)
           < Len(get_children(graph, last.a1))

\* C14: add_node(x) on a graph that already contains x leaves the whole
\* graph unchanged: x is listed once and keeps its edges and weights.
C14_AddNodeIdempotent ==
    [][(last'.op = "add_node" /\ HasKey(graph, last'.a1))
       => (/\ last'.err = "none"
           /\ graph' = graph
           /\ Count(get_nodes(graph'), last'.a1) = 1)]_vars

\* C14 witness: the last call was add_node on a node that has children, so
\* the node was there before the call.
C14_Witness ==
    /\ last.op = "add_node" /\ last.err = "none"
    /\ get_children(graph, last.a1) # <<>>


\* C18: on a DAG instance, for string endpoints with source # target,
\* add_edge(source, target, w) succeeds whenever no directed path from
\* target to source exists, and the graph after it is the graph before with
\* both endpoints present as nodes and the edge source -> target stored
\* with weight w, every other node, edge and weight unchanged.
C18_HarmlessEdgeAccepted ==
    [][(/\ cls = "DAG" /\ last'.op = "add_edge"
        /\ IsStr(last'.a1) /\ IsStr(last'.a2) /\ last'.a1 # last'.a2
        /\ last'.a1 \notin ReachPlus(graph, last'.a2))
       => (/\ last'.err = "none"
           /\ get_nodes(graph') =
                  get_nodes(graph)
                  \o (IF HasKey(graph, last'.a1) THEN <<>> ELSE <<last'.a1>>)
                  \o (IF HasKey(graph, last'.a2) THEN <<>> ELSE <<last'.a2>>)
           /\ \A n \in KeySet(graph') \ {last'.a1} :
                  Get(graph', n) = IF HasKey(graph, n) THEN Get(graph, n) ELSE <<>>
           /\ get_children(graph', last'.a1) =
                  get_children(graph, last'.a1)
                  \o (IF <<last'.a1, last'.a2>> \in EdgeSet(graph)
                      THEN <<>> ELSE <<last'.a2>>)
           /\ Weight(graph', last'.a1, last'.a2) = last'.w
           /\ \A c \in SeqToSet(get_children(graph, last'.a1)) \ {last'.a2} :
                  Weight(graph', last'.a1, c) = Weight(graph, last'.a1, c))]_vars

\* C18 witness: a DAG instance has accepted an edge with weight w1 between
\* two distinct nodes and now holds two or more edges.
C18_Witness ==
    /\ cls = "DAG" /\ last.op = "add_edge" /\ last.err = "none"
    /\ last.a1 # last.a2 /\ last.w = "w1"
    /\ NumEdges(graph) >= 2


\* the children of out[i] that have not been yielded among out[1..i]
UnvisitedChildren(g, out, i) ==
    SelectSeq(get_children(g, out[i]),
              LAMBDA c : c \notin {out[j] : j \in 1..i})

\* C15: dfs(start) follows the stack algorithm: start is yielded first, and
\* the node yielded immediately after a node with unvisited children is the
\* last-listed unvisited child of that node.
C15_DfsReverseChildOrder ==
    (it.mode = "dfs" /\ it.out # <<>>) =>
        /\ it.out[1] = it.start
        /\ \A i \in 1..(Len(it.out) - 1) :
               LET u == UnvisitedChildren(graph, it.out, i) IN
               u # <<>> => it.out[i + 1] = u[Len(u)]

\* C15 witness: dfs has yielded a node with two unvisited children and then
\* the second of them.
C15_Witness ==
    /\ it.mode = "dfs" /\ Len(it.out) >= 2
    /\ Len(UnvisitedChildren(graph, it.out, 1)) = 2
    /\ it.out[2] = UnvisitedChildren(graph, it.out, 1)[2]

\* C17: path_exists(start, target) returns false when start is absent from
\* the graph, also when start = target; when start is in the graph it
\* returns true exactly when target is reachable from start by zero or more
\* stored edges.
C17_PathExistsIsReachability ==
    last.op = "path_exists" =>
        (last.found <=> (HasKey(graph, last.a1)
                         /\ last.a2 \in ReachStar(graph, last.a1)))

\* C17 witness: path_exists(n, n) has returned false for a node n that is
\* absent from a graph that holds edges.
C17_Witness ==
    /\ last.op = "path_exists" /\ last.a1 = last.a2 /\ IsStr(last.a1)
    /\ ~HasKey(graph, last.a1) /\ ~last.found
    /\ NumEdges(graph) >= 1


\* number of edges on a shortest path from a node of S to n, plus d
RECURSIVE DistFrom(_, _, _, _)
DistFrom(g, S, n, d) ==
    IF n \in S THEN d ELSE DistFrom(g, S \cup Post(g, S), n, d + 1)

\* shortest-path distance from s to a node n reachable from s
Dist(g, s, n) == DistFrom(g, {s}, n, 0)

\* C16: bfs(start) yields start first, and the yielded sequence is
\* non-decreasing in shortest-path distance from start: every node at
\* distance d is yielded before any node at distance d + 1.
C16_BfsLevelOrder ==
    (it.mode = "bfs" /\ HasKey(graph, it.start) /\ it.out # <<>>) =>
        /\ it.out[1] = it.start
        /\ \A i, j \in 1..Len(it.out) :
               i < j => Dist(graph, it.start, it.out[i])
                           <= Dist(graph, it.start, it.out[j])
        /\ it.pc = "done" =>
               \A n \in ReachStar(graph, it.start) : n \in SeqToSet(it.out)

\* C16 witness: bfs has been exhausted on a graph with two nodes at
\* distance 1 and a node at distance 2 from start.
C16_Witness ==
    /\ it.mode = "bfs" /\ it.pc = "done" /\ Len(it.out) = 4
    /\ Dist(graph, it.start, it.out[2]) = 1
    /\ Dist(graph, it.start, it.out[3]) = 1
    /\ Dist(graph, it.start, it.out[4]) = 2
    /\ <<it.out[2], it.out[4]>> \in EdgeSet(graph)

====
